---- MODULE Spec2Model ----
(***************************************************************************)
(* netdev_exporter: one scrape (get_metrics -> get_counters) builds a      *)
(* fresh registry, lists the physical devices, asks ibdev2netdev for the   *)
(* netdev -> (ibdev, port) map, runs ethtool -S per device, reads the RDMA *)
(* hw_counters files of correlated devices and renders the registry.       *)
(* Several scrapes are coroutines of one asyncio loop; they interleave at  *)
(* the awaits (create_subprocess_exec, communicate).                       *)
(*                                                                         *)
(* Text is modelled as a sequence of tokens.  A maximal run of characters  *)
(* other than space, colon and newline is written as an optional leading   *)
(* "num" token (its leading decimal digits) followed by an optional "word" *)
(* token (the rest, not starting with a digit); "minus" is a '-' that      *)
(* starts such a run.                                                      *)
(***************************************************************************)
EXTENDS Integers, Sequences, FiniteSets, TLC

\* ------------------------------------------------------------------ bounds
MaxLines == 2       \* lines of output a tool prints
MaxBadFiles == 1    \* hw_counters files that differ from a healthy file

\* --------------------------------------------------------------- constants
ETHTOOL_COUNTERS ==
    << "rx_buffer_passed_thres_phy", "rx_bytes_phy", "rx_corrected_bits_phy",
       "rx_cqe_compress_blks", "rx_cqe_compress_pkts", "rx_crc_errors_phy",
       "rx_discards_phy", "rx_fifo_errors", "rx_missed_errors",
       "rx_mpwqe_filler", "rx_multicast_phy", "rx_out_of_buffer",
       "rx_over_errors", "rx_oversize_packets_phy", "rx_pci_signal_integrity",
       "rx_pcs_symbol_err_phy", "rx_prio0_buf_discard", "rx_prio0_cong_discard",
       "rx_prio0_discards", "rx_steer_missed_packets", "rx_symbol_err_phy",
       "rx_wqe_err", "tx_bytes_phy", "tx_cqe_err", "tx_dropped",
       "tx_fifo_errors", "tx_multicast_phy", "tx_pci_signal_integrity",
       "tx_queue_stopped" >>

RDMA_COUNTERS ==
    << "out_of_buffer", "req_cqe_error", "req_cqe_flush_error",
       "resp_cqe_error", "resp_cqe_flush_error", "resp_local_length_error" >>

\* exit status of ethtool -S when the device has no statistics
NO_STATS == 94

Range(f) == { f[x] : x \in DOMAIN f }

\* F(v) with v evaluated once, as Python evaluates an argument before the call
Let(v, F(_)) == CHOOSE y \in { F(x) : x \in {v} } : TRUE

\* ------------------------------------------------------------------ tokens
Tok(k, s, d) == [k |-> k, s |-> s, d |-> d]
SP == Tok("sp", "", <<>>)
COLON == Tok("colon", "", <<>>)
NL == Tok("nl", "", <<>>)
MINUS == Tok("minus", "", <<>>)
W(s) == Tok("word", s, <<>>)
N(d) == Tok("num", "", d)

\* int() of a run of decimal digits
RECURSIVE DigitsValue(_)
DigitsValue(d) ==
    IF d = <<>> THEN 0
    ELSE 10 * DigitsValue(SubSeq(d, 1, Len(d) - 1)) + d[Len(d)]

\* bytes.splitlines(): cut at each newline, no empty last line
RECURSIVE splitlines(_)
splitlines(text) ==
    IF text = <<>> THEN <<>>
    ELSE IF \E j \in 1..Len(text) : text[j] = NL
         THEN Let(CHOOSE j \in 1..Len(text) :
                     /\ text[j] = NL
                     /\ \A h \in 1..(j - 1) : text[h] # NL,
                  LAMBDA j : <<SubSeq(text, 1, j - 1)>>
                                \o Let(SubSeq(text, j + 1, Len(text)), LAMBDA rest : splitlines(rest)))
         ELSE <<text>>

\* length of the longest prefix of text, from position p on, whose tokens
\* all have a kind outside `stop`
RECURSIVE RunLen(_, _, _)
RunLen(text, p, stop) ==
    IF p > Len(text) \/ text[p].k \in stop THEN 0
    ELSE 1 + RunLen(text, p + 1, stop)

At(text, p) == IF p \in 1..Len(text) THEN text[p] ELSE Tok("end", "", <<>>)

NoMatch == [matched |-> FALSE]

\* re.match(r'([^ ]+) port (\d+) ==> ([^ ]+)', text)
MatchMapping(text) ==
    LET n1 == RunLen(text, 1, {"sp"})
        p  == n1 + 1
        n3 == RunLen(text, p + 7, {"sp"})
    IN  IF /\ n1 >= 1
           /\ At(text, p) = SP
           /\ At(text, p + 1) = W("port")
           /\ At(text, p + 2) = SP
           /\ At(text, p + 3).k = "num"
           /\ At(text, p + 4) = SP
           /\ At(text, p + 5) = W("==>")
           /\ At(text, p + 6) = SP
           /\ n3 >= 1
        THEN [matched |-> TRUE,
              group1 |-> SubSeq(text, 1, n1),
              group2 |-> At(text, p + 3).d,
              group3 |-> SubSeq(text, p + 7, p + 6 + n3)]
        ELSE NoMatch

\* re.match(r' +([^ :]+): (\d+)', text)
MatchEthtool(text) ==
    LET n0 == RunLen(text, 1, {"word", "num", "colon", "minus", "nl"})
        n1 == RunLen(text, n0 + 1, {"sp", "colon"})
        p  == n0 + n1 + 1
    IN  IF /\ n0 >= 1
           /\ n1 >= 1
           /\ At(text, p) = COLON
           /\ At(text, p + 1) = SP
           /\ At(text, p + 2).k = "num"
        THEN [matched |-> TRUE,
              group1 |-> SubSeq(text, n0 + 1, n0 + n1),
              group2 |-> At(text, p + 2).d]
        ELSE NoMatch

\* the text of a Python str that holds a plain name
Str(name) == <<W(name)>>

\* int(s) of a whole file: surrounding whitespace is stripped, one optional
\* sign, then decimal digits and nothing else; anything else is a ValueError
int(text) ==
    LET lead  == RunLen(text, 1, {"word", "num", "colon", "minus"})
        rest  == SubSeq(text, lead + 1, Len(text))
        neg   == At(rest, 1) = MINUS
        body  == IF neg THEN SubSeq(rest, 2, Len(rest)) ELSE rest
        tail  == SubSeq(body, 2, Len(body))
    IN  IF /\ At(body, 1).k = "num"
           /\ \A j \in 1..Len(tail) : tail[j].k \in {"sp", "nl"}
        THEN [ok |-> TRUE,
              value |-> IF neg THEN 0 - DigitsValue(body[1].d)
                        ELSE DigitsValue(body[1].d)]
        ELSE [ok |-> FALSE, value |-> 0]


\* ---------------------------------------------------------------- registry
\* A CollectorRegistry is the function from the metrics registered in it to
\* their children; the children of a metric map a device label to a value.
NoChildren == [d \in {} |-> 0]

EmptyRegistry == [m \in {} |-> NoChildren]

\* { name: Counter(prefix + name + '_total', ..., labelnames=('device',),
\*                  registry=registry) for name in names }: every counter is
\* registered in the registry, without children
make_counters(registry, prefix, names) ==
    [m \in DOMAIN registry \cup { <<prefix, n>> : n \in Range(names) } |->
        IF m[1] = prefix /\ m[2] \in Range(names) THEN NoChildren ELSE registry[m]]

make_ethtool_counters(registry) == make_counters(registry, "ethtool", ETHTOOL_COUNTERS)

make_rdma_counters(registry) == make_counters(registry, "rdma", RDMA_COUNTERS)

\* counter.labels(device): the child of that label, created at 0 when new
labels(registry, metric, device) ==
    IF device \in DOMAIN registry[metric] THEN registry
    ELSE [registry EXCEPT ![metric] =
            [d \in DOMAIN registry[metric] \cup {device} |->
                IF d = device THEN 0 ELSE registry[metric][d]]]

\* the child set to the amount, as Gauge.set does, instead of raised by it
set_value(registry, metric, device, amount) ==
    IF amount < 0 THEN [raised |-> TRUE, registry |-> registry]
    ELSE [raised |-> FALSE,
          registry |-> [registry EXCEPT ![metric][device] = amount]]

\* child.inc(amount): prometheus_client raises ValueError on a negative amount
inc(registry, metric, device, amount) ==
    IF amount < 0 THEN [raised |-> TRUE, registry |-> registry]
    ELSE [raised |-> FALSE,
          registry |-> [registry EXCEPT ![metric][device] = @ + amount]]

\* prometheus_client.generate_latest(registry): a header per registered
\* metric, a sample line per child; the order of the lines is not kept
generate_latest(registry) ==
    [metrics |-> DOMAIN registry,
     samples |-> UNION { { <<m, d, registry[m][d]>> : d \in DOMAIN registry[m] } :
                         m \in DOMAIN registry }]

\* ------------------------------------------------------------- environment
\* What the host answers during the run: the entries of /sys/class/net, the
\* result of /usr/bin/ibdev2netdev, the result of /sbin/ethtool -S per
\* device and the files under /sys/class/infiniband.  A tool result is
\* [kind, rc, out]: kind "notfound" (the binary is missing), "hang" (the
\* process never exits) or "exit" with status rc and the printed lines out.
Interfaces == {"lo", "eth0", "eth1"}

\* interfaces with a /sys/class/net/<name>/device link
Backed == {"eth0", "eth1"}

MappingLine(id) ==
    CASE id = "m0"  -> <<W("mlx5_0"), SP, W("port"), SP, N(<<1>>), SP, W("==>"), SP, W("eth0"), SP, W("(Up)")>>
      [] id = "m1"  -> <<W("mlx5_1"), SP, W("port"), SP, N(<<2>>), SP, W("==>"), SP, W("eth1"), SP, W("(Up)")>>
      [] id = "m0b" -> <<W("mlx5_1"), SP, W("port"), SP, N(<<0, 2>>), SP, W("==>"), SP, W("eth0")>>
      [] id = "bad" -> <<W("mlx5_0"), SP, W("port"), SP, N(<<1>>), W("x"), SP, W("==>"), SP, W("eth1")>>

EthtoolLine(id) ==
    CASE id = "rx12"    -> <<SP, SP, SP, SP, SP, W("rx_bytes_phy"), COLON, SP, N(<<1, 2>>)>>
      [] id = "rx5"     -> <<SP, W("rx_bytes_phy"), COLON, SP, N(<<0, 5>>), W("pkts")>>
      [] id = "tx3"     -> <<SP, SP, W("tx_dropped"), COLON, SP, N(<<3>>)>>
      [] id = "unknown" -> <<SP, W("unknown_counter"), COLON, SP, N(<<9>>)>>
      [] id = "nospace" -> <<W("rx_bytes_phy"), COLON, SP, N(<<7>>)>>

FileText(kind) ==
    CASE kind = "42"       -> <<N(<<4, 2>>), NL>>
      [] kind = "7"        -> <<N(<<7>>), NL>>
      [] kind = "padded"   -> <<SP, N(<<0, 9>>), SP, NL>>
      [] kind = "garbage"  -> <<W("N/A"), NL>>
      [] kind = "empty"    -> <<>>
      [] kind = "negative" -> <<MINUS, N(<<5>>), NL>>
      [] OTHER             -> <<>>

\* the bytes a tool printed: its lines, each ended by a newline
RECURSIVE Printed(_, _)
Printed(lines, j) ==
    IF j > Len(lines) THEN <<>>
    ELSE lines[j] \o <<NL>> \o Printed(lines, j + 1)

SeqsUpTo(S, n) == UNION { [1..m -> S] : m \in 0..n }

Exit(rc, out) == [kind |-> "exit", rc |-> rc, out |-> out]
NotFound == [kind |-> "notfound", rc |-> 0, out |-> <<>>]
Hang == [kind |-> "hang", rc |-> 0, out |-> <<>>]

MappingResults ==
    { Exit(0, o) : o \in SeqsUpTo({"m0", "m1", "m0b", "bad"}, MaxLines) }
        \cup { Exit(1, <<"m0">>), NotFound, Hang }

EthtoolResults ==
    { Exit(0, o) : o \in SeqsUpTo({"rx12", "rx5", "tx3", "unknown", "nospace"}, MaxLines) }
        \cup { Exit(rc, o) : rc \in {NO_STATS, 1}, o \in {<<>>, <<"rx12">>} }
        \cup { NotFound, Hang }

FileKinds == {"42", "7", "padded", "garbage", "empty", "negative", "missing", "unreadable"}

FileProfiles ==
    { f \in [Range(RDMA_COUNTERS) -> FileKinds] :
        Cardinality({ n \in Range(RDMA_COUNTERS) : f[n] # "42" }) <= MaxBadFiles }

Listings ==
    { l \in SeqsUpTo(Interfaces, Cardinality(Interfaces)) :
        \A a, b \in DOMAIN l : a # b => l[a] # l[b] }

\* the usual host: both interfaces, both correlated, healthy files
UsualListing == <<"lo", "eth0", "eth1">>
UsualMapping == Exit(0, <<"m0", "m1">>)
UsualEthtool(device) ==
    IF device = "eth0" THEN Exit(0, <<"rx12", "tx3">>) ELSE Exit(0, <<"rx5">>)
UsualFiles == [n \in Range(RDMA_COUNTERS) |-> "42"]

Environment(l, m, e, f) == [listdir |-> l, ibdev2netdev |-> m, ethtool |-> e, files |-> f]

\* the hosts explored: the usual host changed in one place, every way that
\* place can be, with the result of ethtool on the other device either
\* usual or a plain failure
EthtoolBase == { [d \in Backed |-> IF d \in F THEN Exit(1, <<"rx12">>) ELSE UsualEthtool(d)] :
                   F \in SUBSET Backed }

Environments ==
    { Environment(l, UsualMapping, e, UsualFiles) : l \in Listings, e \in EthtoolBase }
    \cup { Environment(UsualListing, m, e, UsualFiles) : m \in MappingResults, e \in EthtoolBase }
    \cup { Environment(UsualListing, UsualMapping, [e EXCEPT ![d] = r], UsualFiles) :
             e \in EthtoolBase, d \in Backed, r \in EthtoolResults }
    \cup { Environment(UsualListing, UsualMapping, [d \in Backed |-> UsualEthtool(d)], f) :
             f \in FileProfiles }

\* the file at /sys/class/infiniband/<ibdev>/ports/<port>/hw_counters/<name>:
\* "missing" when there is none
File(host, ibdev, port, name) ==
    IF ibdev = Str("mlx5_0") /\ port = 1 THEN host.files[name]
    ELSE IF ibdev = Str("mlx5_1") /\ port = 2 THEN "7"
    ELSE "missing"


MappingStdout(result) ==
    Let([j \in DOMAIN result.out |-> MappingLine(result.out[j])], LAMBDA lines : Printed(lines, 1))

EthtoolStdout(result) ==
    Let([j \in DOMAIN result.out |-> EthtoolLine(result.out[j])], LAMBDA lines : Printed(lines, 1))

\* ------------------------------------------------------------ the readers
\* os.listdir('/sys/class/net') filtered by os.path.exists(.../device)
physical_devices(host) == SelectSeq(host.listdir, LAMBDA device : device \in Backed)

NoMapping == [netdev \in {} |-> <<>>]

\* one line of ibdev2netdev:
\* if match: out[match.group(3)] = (match.group(1), int(match.group(2)))
mapping_line(out, text) ==
    Let(MatchMapping(text), LAMBDA match :
        IF match.matched
        THEN [netdev \in DOMAIN out \cup {match.group3} |->
                IF netdev = match.group3
                THEN <<match.group1, DigitsValue(match.group2)>>
                ELSE out[netdev]]
        ELSE out)

RECURSIVE mapping_lines(_, _, _)
mapping_lines(out, lines, j) ==
    IF j > Len(lines) THEN out
    ELSE Let(mapping_line(out, lines[j]), LAMBDA o : mapping_lines(o, lines, j + 1))

\* the exit status of ibdev2netdev never looked at
mapping_never_failed(result) == FALSE

\* process.returncode != 0 in ibdev_mapping
mapping_failed(result) == result.rc # 0

\* ibdev_mapping once communicate() has returned
ibdev_mapping(result) ==
    IF mapping_failed(result) THEN NoMapping
    ELSE Let(splitlines(MappingStdout(result)),
             LAMBDA lines : mapping_lines(NoMapping, lines, 1))

\* name in counters
in_counters(name, names) == \E n \in Range(names) : Str(n) = name

\* one line of ethtool -S:
\* if match and name in counters: counters[name].labels(device).inc(value)
ethtool_line(registry, device, text) ==
    Let(MatchEthtool(text), LAMBDA match :
        IF match.matched /\ in_counters(match.group1, ETHTOOL_COUNTERS)
        THEN Let(labels(registry, <<"ethtool", match.group1[1].s>>, device),
                 LAMBDA r : inc(r, <<"ethtool", match.group1[1].s>>, device,
                                DigitsValue(match.group2)).registry)
        ELSE registry)

RECURSIVE ethtool_lines(_, _, _, _)
ethtool_lines(registry, device, lines, j) ==
    IF j > Len(lines) THEN registry
    ELSE Let(ethtool_line(registry, device, lines[j]),
             LAMBDA r : ethtool_lines(r, device, lines, j + 1))

\* the exit status of ethtool never looked at
ethtool_never_failed(result) == FALSE

\* process.returncode != 0 in update_ethtool
ethtool_failed(result) == result.rc # 0

\* update_ethtool once communicate() has returned
update_ethtool(device, registry, result) ==
    IF ethtool_failed(result)
    THEN [registry |-> registry, warning |-> result.rc # NO_STATS]
    ELSE [registry |-> Let(splitlines(EthtoolStdout(result)),
                           LAMBDA lines : ethtool_lines(registry, device, lines, 1)),
          warning |-> FALSE]

\* with (base / name).open('r') as f: value = int(f.read())
read_counter(host, ibdev, port, name) ==
    LET kind == File(host, ibdev, port, name)
    IN  IF kind \in {"missing", "unreadable"} THEN [ok |-> FALSE, value |-> 0]
        ELSE int(FileText(kind))

\* a counter that could not be read reported as 0
zero_fill(registry, metric, device) == labels(registry, metric, device)

\* except (OSError, ValueError): pass
on_read_error(registry, metric, device) == registry

\* one counter of update_rdma: [raised, registry]
rdma_counter(device, ibdev, port, registry, host, name) ==
    Let(read_counter(host, ibdev, port, name), LAMBDA read :
        IF ~read.ok
        THEN [raised |-> FALSE, registry |-> on_read_error(registry, <<"rdma", name>>, device)]
        ELSE Let(labels(registry, <<"rdma", name>>, device),
                 LAMBDA r : inc(r, <<"rdma", name>>, device, read.value)))

\* for name, counter in counters.items(): an exception of inc() leaves the loop
RECURSIVE rdma_counters_from(_, _, _, _, _, _)
rdma_counters_from(device, ibdev, port, registry, host, j) ==
    IF j > Len(RDMA_COUNTERS) THEN [raised |-> FALSE, registry |-> registry]
    ELSE Let(rdma_counter(device, ibdev, port, registry, host, RDMA_COUNTERS[j]),
             LAMBDA done : IF done.raised THEN done
                           ELSE rdma_counters_from(device, ibdev, port, done.registry, host, j + 1))

update_rdma(device, ibdev, port, registry, host) ==
    Let(registry, LAMBDA r : rdma_counters_from(device, ibdev, port, r, host, 1))

\* every lookup of ibdevs[device] taken as a KeyError
never_correlated(mapping, device) == FALSE

\* ibdevs[device] does not raise KeyError
has_correlation(mapping, device) == Str(device) \in DOMAIN mapping

\* the body of the loop of get_counters after update_ethtool has returned
after_ethtool(device, mapping, registry, host) ==
    IF has_correlation(mapping, device)
    THEN update_rdma(device, mapping[Str(device)][1], mapping[Str(device)][2], registry, host)
    ELSE [raised |-> FALSE, registry |-> registry]


\* ------------------------------------------------------------------- state
VARIABLES
    env,         \* the host (fixed during a run)
    pc,          \* pc[s]: where the coroutine of scrape s stands
    registries,  \* the CollectorRegistry objects, by identity
    registry,    \* registry[s]: the object get_counters of s holds (0: none)
    devices,     \* devices[s]: the list get_counters of s iterates
    ibdevs,      \* ibdevs[s]: the mapping get_counters of s holds
    index,       \* index[s]: position in devices[s] of the device in work
    log,         \* log[s]: devices for which s logged 'ethtool failed'
    calls,       \* calls[s]: the steps s has taken, in order
    met,         \* met[s]: the scrapes that were in progress during a step of s
    response     \* response[s]: what get_metrics of s gave the HTTP layer

vars == <<env, pc, registries, registry, devices, ibdevs, index, log, calls, met, response>>

\* the scrape requests the HTTP layer hands to get_metrics
Scrapes == {1, 2}

NoResponse == [status |-> 0, text |-> generate_latest(EmptyRegistry)]

\* one registry of the module, used by every scrape
shared_registry(s) == 1

\* CollectorRegistry(): a new object, of an identity no other scrape holds
CollectorRegistry(s) == s

Init ==
    /\ env \in Environments
    /\ pc = [s \in Scrapes |-> "idle"]
    /\ registries = [r \in Scrapes |-> EmptyRegistry]
    /\ registry = [s \in Scrapes |-> 0]
    /\ devices = [s \in Scrapes |-> <<>>]
    /\ ibdevs = [s \in Scrapes |-> NoMapping]
    /\ index = [s \in Scrapes |-> 0]
    /\ log = [s \in Scrapes |-> <<>>]
    /\ calls = [s \in Scrapes |-> <<>>]
    /\ met = [s \in Scrapes |-> {}]
    /\ response = [s \in Scrapes |-> NoResponse]

InProgress(s) == pc[s] \notin {"idle", "done", "error"}

Meet(s) == met' = [met EXCEPT ![s] = @ \cup { t \in Scrapes \ {s} : InProgress(t) }]

\* get_metrics called: get_counters runs up to the first await, line 82
Start(s) ==
    /\ pc[s] = "idle"
    /\ Meet(s)
    /\ LET r == CollectorRegistry(s)
       IN  /\ registry' = [registry EXCEPT ![s] = r]
           /\ registries' = [registries EXCEPT ![r] =
                               make_rdma_counters(make_ethtool_counters(EmptyRegistry))]
    /\ devices' = [devices EXCEPT ![s] = physical_devices(env)]
    /\ calls' = [calls EXCEPT ![s] = <<<<"registry">>, <<"devices">>, <<"mapping">>>>]
    /\ pc' = [pc EXCEPT ![s] = "map_exec"]
    /\ UNCHANGED <<env, ibdevs, index, log, response>>

\* the for loop of get_counters reaches position j: the next update_ethtool
\* runs up to its await, or the loop is over and get_metrics renders
Loop(s, j, before) ==
    IF j > Len(devices[s])
    THEN /\ pc' = [pc EXCEPT ![s] = "done"]
         /\ index' = [index EXCEPT ![s] = j]
         /\ calls' = [calls EXCEPT ![s] = before \o <<<<"render">>>>]
         /\ response' = [response EXCEPT ![s] =
                           [status |-> 200, text |-> generate_latest(registries'[registry[s]])]]
    ELSE /\ pc' = [pc EXCEPT ![s] = "eth_exec"]
         /\ index' = [index EXCEPT ![s] = j]
         /\ calls' = [calls EXCEPT ![s] = before \o <<<<"ethtool", devices[s][j]>>>>]
         /\ UNCHANGED response

\* an exception leaves get_counters and get_metrics: no render
Raise(s) ==
    /\ pc' = [pc EXCEPT ![s] = "error"]
    /\ response' = [response EXCEPT ![s] = [status |-> 500, text |-> generate_latest(EmptyRegistry)]]

\* await create_subprocess_exec('/usr/bin/ibdev2netdev') returns or raises
MapExec(s) ==
    /\ pc[s] = "map_exec"
    /\ Meet(s)
    /\ IF env.ibdev2netdev.kind = "notfound"
       THEN /\ ibdevs' = [ibdevs EXCEPT ![s] = NoMapping]
            /\ UNCHANGED registries
            /\ Loop(s, 1, calls[s])
       ELSE /\ pc' = [pc EXCEPT ![s] = "map_wait"]
            /\ UNCHANGED <<ibdevs, registries, index, calls, response>>
    /\ UNCHANGED <<env, registry, devices, log>>

\* await process.communicate() of ibdev2netdev returns
MapDone(s) ==
    /\ pc[s] = "map_wait"
    /\ Meet(s)
    /\ env.ibdev2netdev.kind = "exit"
    /\ \E out \in { ibdev_mapping(env.ibdev2netdev) } : ibdevs' = [ibdevs EXCEPT ![s] = out]
    /\ UNCHANGED registries
    /\ Loop(s, 1, calls[s])
    /\ UNCHANGED <<env, registry, devices, log>>

\* await create_subprocess_exec('/sbin/ethtool', '-S', device) returns or raises
EthExec(s) ==
    /\ pc[s] = "eth_exec"
    /\ Meet(s)
    /\ IF env.ethtool[devices[s][index[s]]].kind = "notfound"
       THEN /\ Raise(s)
       ELSE /\ pc' = [pc EXCEPT ![s] = "eth_wait"]
            /\ UNCHANGED response
    /\ UNCHANGED <<env, registries, registry, devices, ibdevs, index, log, calls>>

\* await process.communicate() of ethtool returns: the rest of
\* update_ethtool, update_rdma for a correlated device, and the loop goes on
EthDone(s) ==
    /\ pc[s] = "eth_wait"
    /\ Meet(s)
    /\ env.ethtool[devices[s][index[s]]].kind = "exit"
    /\ \E eth \in { update_ethtool(devices[s][index[s]], registries[registry[s]],
                                   env.ethtool[devices[s][index[s]]]) } :
       \E rdma \in { after_ethtool(devices[s][index[s]], ibdevs[s], eth.registry, env) } :
       LET device == devices[s][index[s]]
           ran    == IF has_correlation(ibdevs[s], device)
                     THEN <<<<"rdma", device, ibdevs[s][Str(device)][1], ibdevs[s][Str(device)][2]>>>>
                     ELSE <<>>
       IN  /\ log' = [log EXCEPT ![s] = IF eth.warning THEN Append(@, device) ELSE @]
           /\ registries' = [registries EXCEPT ![registry[s]] = rdma.registry]
           /\ IF rdma.raised
              THEN /\ Raise(s)
                   /\ calls' = [calls EXCEPT ![s] = @ \o ran]
                   /\ UNCHANGED index
              ELSE Loop(s, index[s] + 1, calls[s] \o ran)
    /\ UNCHANGED <<env, registry, devices, ibdevs>>

Step(s) == Start(s) \/ MapExec(s) \/ MapDone(s) \/ EthExec(s) \/ EthDone(s)

Next == \E s \in Scrapes : Step(s)

Spec == Init /\ [][Next]_vars


\* ------------------------------------------------------------- properties
Waits == {"map_wait", "eth_wait"}

Reg(s) == registries[registry[s]]

Started(s) == pc[s] # "idle"

Rendered(s) == pc[s] = "done"

MappingBroken == env.ibdev2netdev.kind = "notfound"
                     \/ (env.ibdev2netdev.kind = "exit" /\ env.ibdev2netdev.rc # 0)

\* the (metric, device) pairs that have a data point in a registry
DataPoints(r) == UNION { { <<m, d>> : d \in DOMAIN r[m] } : m \in DOMAIN r }

\* the samples of a registry under the metrics of one catalogue
SamplesOf(r, prefix) == { x \in generate_latest(r).samples : x[1][1] = prefix }

\* the samples of a registry that carry one device label
SamplesFor(r, prefix, device) == { x \in SamplesOf(r, prefix) : x[2] = device }

FreshRegistry == make_rdma_counters(make_ethtool_counters(EmptyRegistry))

\* the lines ethtool printed for a device that name a counter, in order
LinesNaming(device, name) ==
    SelectSeq(splitlines(EthtoolStdout(env.ethtool[device])),
              LAMBDA line : MatchEthtool(line).matched /\ MatchEthtool(line).group1 = Str(name))

RECURSIVE SumOfLines(_, _)
SumOfLines(lines, j) ==
    IF j > Len(lines) THEN 0
    ELSE DigitsValue(MatchEthtool(lines[j]).group2) + SumOfLines(lines, j + 1)

\* the number of devices of s whose update_ethtool has returned
Processed(s) ==
    IF pc[s] \in {"idle", "map_exec", "map_wait"} THEN 0
    ELSE IF pc[s] = "error" /\ env.ethtool[devices[s][index[s]]].kind = "exit" THEN index[s]
    ELSE index[s] - 1

\* C1: every scrape cycle ends in a render, never in an error, whatever the
\* tools and the files do.
C1_AlwaysRenders == \A s \in Scrapes : response[s].status \in {0, 200}

\* the registry a scrape of this host ends with when it runs alone
RECURSIVE AloneFrom(_, _, _, _)
AloneFrom(devs, map, r, j) ==
    IF j > Len(devs) THEN r
    ELSE AloneFrom(devs, map,
                   after_ethtool(devs[j], map,
                                 update_ethtool(devs[j], r, env.ethtool[devs[j]]).registry,
                                 env).registry,
                   j + 1)

Alone ==
    AloneFrom(physical_devices(env),
              IF env.ibdev2netdev.kind = "exit" THEN ibdev_mapping(env.ibdev2netdev) ELSE NoMapping,
              FreshRegistry, 1)

\* C2: whatever the interleaving of the scrapes at their awaits, the text a
\* scrape renders is the text it renders when it runs alone on the same host,
\* and a scrape holds a registry no other scrape holds.
C2_Isolated ==
    /\ \A s \in Scrapes : Rendered(s) => response[s].text = generate_latest(Alone)
    /\ \A s, t \in Scrapes : s # t /\ Started(s) /\ Started(t) => registry[s] # registry[t]

\* a scrape rendered data points while the other one, in progress during its
\* steps, has written data points of its own and has not rendered yet
C2_Witness ==
    /\ Rendered(1) /\ 2 \in met[1]
    /\ response[1].text.samples # {}
    /\ pc[2] = "eth_wait" /\ index[2] = 2
    /\ DataPoints(Reg(2)) # {}

\* C3: a (device, counter) pair has a data point only if this scrape parsed
\* a number for it: ethtool exited 0 for the device and printed a line that
\* matches and names the counter, or the device is correlated and the
\* counter file of its (ibdev, port) reads as an integer.
C3_OnlyParsed ==
    \A s \in Scrapes : Started(s) =>
        \A x \in DataPoints(Reg(s)) :
            LET prefix == x[1][1]
                name   == x[1][2]
                device == x[2]
            IN  /\ device \in Range(devices[s])
                /\ prefix = "ethtool" =>
                      /\ env.ethtool[device].kind = "exit"
                      /\ env.ethtool[device].rc = 0
                      /\ name \in Range(ETHTOOL_COUNTERS)
                      /\ Len(LinesNaming(device, name)) >= 1
                /\ prefix = "rdma" =>
                      /\ Str(device) \in DOMAIN ibdevs[s]
                      /\ name \in Range(RDMA_COUNTERS)
                      /\ File(env, ibdevs[s][Str(device)][1], ibdevs[s][Str(device)][2], name)
                            \notin {"missing", "unreadable"}
                      /\ int(FileText(File(env, ibdevs[s][Str(device)][1],
                                           ibdevs[s][Str(device)][2], name))).ok

\* a render in which a correlated device has a data point for one RDMA
\* counter and none for another one, and an ethtool line was not parsed
C3_Witness ==
    \E s \in Scrapes :
        /\ Rendered(s)
        /\ <<<<"rdma", "req_cqe_error">>, "eth0">> \in DataPoints(Reg(s))
        /\ <<<<"rdma", "out_of_buffer">>, "eth0">> \notin DataPoints(Reg(s))
        /\ <<<<"ethtool", "rx_bytes_phy">>, "eth0">> \in DataPoints(Reg(s))

\* C4: at the end of a scrape every data point holds the latest
\* reading of its pair: the value of the last line of ethtool that names the
\* counter, or the integer of the counter file.
C4_LatestReading ==
    \A s \in Scrapes : Rendered(s) =>
        \A x \in DataPoints(Reg(s)) :
            LET lines == LinesNaming(x[2], x[1][2])
            IN  /\ x[1][1] = "ethtool" =>
                      /\ Len(lines) >= 1
                      /\ Reg(s)[x[1]][x[2]] = DigitsValue(MatchEthtool(lines[Len(lines)]).group2)
                /\ x[1][1] = "rdma" =>
                      Reg(s)[x[1]][x[2]] =
                         read_counter(env, ibdevs[s][Str(x[2])][1], ibdevs[s][Str(x[2])][2], x[1][2]).value

\* What the code gives instead of C4: in a scrape that renders, an ethtool
\* data point holds the sum of the values of all the lines that name its
\* counter (the reading itself when one line names it), and an RDMA data
\* point holds the integer of its counter file.
C4_SumOfReadings ==
    \A s \in Scrapes : Rendered(s) =>
        \A x \in DataPoints(Reg(s)) :
            /\ x[1][1] = "ethtool" =>
                  Reg(s)[x[1]][x[2]] = SumOfLines(LinesNaming(x[2], x[1][2]), 1)
            /\ x[1][1] = "rdma" =>
                  Reg(s)[x[1]][x[2]] =
                     read_counter(env, ibdevs[s][Str(x[2])][1], ibdevs[s][Str(x[2])][2], x[1][2]).value

\* a render of a device for which ethtool named rx_bytes_phy on two lines
C4_Witness ==
    \E s \in Scrapes :
        /\ Rendered(s)
        /\ Len(LinesNaming("eth0", "rx_bytes_phy")) = 2
        /\ <<<<"ethtool", "rx_bytes_phy">>, "eth0">> \in DataPoints(Reg(s))
        /\ <<<<"rdma", "out_of_buffer">>, "eth0">> \in DataPoints(Reg(s))

\* C5: a scrape that waits for a tool to exit can always go on: the tool
\* exits, or the timeout that bounds the wait ends it like a failure.
C5_WaitEnds == \A s \in Scrapes : pc[s] \in Waits => ENABLED Step(s)

\* the ethtool samples of a device when update_ethtool runs for it alone
EthtoolAlone(device) ==
    SamplesFor(update_ethtool(device, FreshRegistry, env.ethtool[device]).registry,
               "ethtool", device)

\* C6: when ibdev2netdev is missing or exits nonzero the scrape holds an
\* empty mapping whatever the tool printed, goes on, runs update_rdma for no
\* device and gives no RDMA data point, and every device whose ethtool run
\* is over has the ethtool samples its own ethtool output gives.
C6_MappingBroken ==
    \A s \in Scrapes :
        MappingBroken /\ pc[s] \notin {"idle", "map_exec", "map_wait"} =>
            /\ ibdevs[s] = NoMapping
            /\ SamplesOf(Reg(s), "rdma") = {}
            /\ \A j \in DOMAIN calls[s] : calls[s][j][1] # "rdma"
            /\ \A j \in 1..Processed(s) :
                  SamplesFor(Reg(s), "ethtool", devices[s][j]) = EthtoolAlone(devices[s][j])
            /\ pc[s] = "error" => env.ethtool[devices[s][index[s]]].kind = "notfound"
            /\ Rendered(s) => Processed(s) = Len(devices[s])

\* ibdev2netdev printed a matching line and exited nonzero; the scrape
\* rendered ethtool samples for a device whose counter files are healthy
C6_Witness ==
    \E s \in Scrapes :
        /\ env.ibdev2netdev = Exit(1, <<"m0">>)
        /\ Rendered(s)
        /\ "eth0" \in Range(devices[s])
        /\ SamplesFor(Reg(s), "ethtool", "eth0") # {}
        /\ env.files = UsualFiles

\* the devices of s, in order, whose ethtool run is over and that exited
\* with a status that is neither 0 nor "no statistics"
RECURSIVE Warned(_, _)
Warned(s, j) ==
    IF j = 0 THEN <<>>
    ELSE Warned(s, j - 1) \o
         (IF env.ethtool[devices[s][j]].rc \notin {0, NO_STATS} THEN <<devices[s][j]>> ELSE <<>>)

\* C7: a device for which ethtool exits nonzero gets no ethtool data point
\* whatever ethtool printed, the failure is logged exactly when the status is
\* not 94, the failure itself never ends the scrape, and every other device
\* processed before or after it has the samples its own output gives.
C7_EthtoolFailure ==
    \A s \in Scrapes :
        /\ \A j \in 1..Processed(s) :
              LET device == devices[s][j]
              IN  /\ env.ethtool[device].rc # 0 => SamplesFor(Reg(s), "ethtool", device) = {}
                  /\ SamplesFor(Reg(s), "ethtool", device) = EthtoolAlone(device)
        /\ log[s] = Warned(s, Processed(s))
        /\ pc[s] = "error" =>
              \/ env.ethtool[devices[s][index[s]]].kind = "notfound"
              \/ \E n \in Range(RDMA_COUNTERS) :
                    /\ Str(devices[s][index[s]]) \in DOMAIN ibdevs[s]
                    /\ read_counter(env, ibdevs[s][Str(devices[s][index[s]])][1],
                                    ibdevs[s][Str(devices[s][index[s]])][2], n).value < 0
        /\ Rendered(s) => Processed(s) = Len(devices[s])

\* a render of two devices: ethtool printed a counter line for the first
\* and exited 1, which was logged; the second one has its samples
C7_Witness ==
    \E s \in Scrapes :
        /\ Rendered(s)
        /\ Len(devices[s]) = 2
        /\ env.ethtool[devices[s][1]] = Exit(1, <<"rx12">>)
        /\ log[s] = <<devices[s][1]>>
        /\ SamplesFor(Reg(s), "ethtool", devices[s][2]) # {}

\* C8: two scrapes of the same host, one after the other or side by side,
\* end with equal registries and render equal text.
C8_Repeatable ==
    \A s, t \in Scrapes :
        Rendered(s) /\ Rendered(t) =>
            /\ response[s].text = response[t].text
            /\ Reg(s) = Reg(t)
            /\ response[s].text = generate_latest(Reg(s))

\* both scrapes rendered data points, the second one after the first was over
C8_Witness ==
    /\ Rendered(1) /\ Rendered(2)
    /\ met[1] = {} /\ met[2] = {}
    /\ SamplesOf(Reg(1), "ethtool") # {}
    /\ SamplesOf(Reg(2), "rdma") # {}

\* the steps of a whole scrape of these devices under this mapping
RECURSIVE DeviceSteps(_, _, _)
DeviceSteps(devs, map, j) ==
    IF j > Len(devs) THEN <<>>
    ELSE <<<<"ethtool", devs[j]>>>>
         \o (IF Str(devs[j]) \in DOMAIN map
             THEN <<<<"rdma", devs[j], map[Str(devs[j])][1], map[Str(devs[j])][2]>>>>
             ELSE <<>>)
         \o DeviceSteps(devs, map, j + 1)

WholeScrape(devs, map) ==
    <<<<"registry">>, <<"devices">>, <<"mapping">>>> \o DeviceSteps(devs, map, 1) \o <<<<"render">>>>

IsPrefix(a, b) == Len(a) <= Len(b) /\ a = SubSeq(b, 1, Len(a))

\* C9: the steps of a scrape are: registry, device list, mapping, then for
\* each device of the list in turn the ethtool reader once and the RDMA
\* reader exactly if the mapping of this scrape has the device (with its
\* ibdev and port), then the render; a scrape that rendered took them all.
C9_Order ==
    \A s \in Scrapes :
        /\ IsPrefix(calls[s], WholeScrape(devices[s], ibdevs[s]))
        /\ Rendered(s) <=> (calls[s] # <<>> /\ calls[s][Len(calls[s])] = <<"render">>)
        /\ Rendered(s) => calls[s] = WholeScrape(devices[s], ibdevs[s])

\* a render of two devices of which the mapping has only the second
C9_Witness ==
    \E s \in Scrapes :
        /\ Rendered(s)
        /\ Len(devices[s]) = 2
        /\ DOMAIN ibdevs[s] = {Str(devices[s][2])}
        /\ Len(calls[s]) = 7

\* C10: once update_rdma has run for a device, every RDMA counter whose file
\* holds an integer v >= 0 has a data point of value v for the device,
\* whatever the other counter files of the device hold.
C10_PerCounter ==
    \A s \in Scrapes :
        \A j \in DOMAIN calls[s] :
            calls[s][j][1] = "rdma" =>
                \A n \in Range(RDMA_COUNTERS) :
                    LET read == read_counter(env, calls[s][j][3], calls[s][j][4], n)
                    IN  read.ok /\ read.value >= 0 =>
                           /\ calls[s][j][2] \in DOMAIN Reg(s)[<<"rdma", n>>]
                           /\ Reg(s)[<<"rdma", n>>][calls[s][j][2]] = read.value

====
